---- MODULE Spec2Model ----
(***************************************************************************)
(* A model of the validator-composition library (index.ts): the record     *)
(* validator builder ValidatorMap and its lookup Proxy, the recursive tree  *)
(* compiler ValidationTree, the iterable lifter IterableValidator and the   *)
(* logical combinators.                                                     *)
(*                                                                          *)
(* JavaScript values are records tagged by "t"; validators (closures) are  *)
(* records tagged by "kind".  A field-map object lives in the heap and a    *)
(* record validator holds its address, as the closure holds the reference   *)
(* to the caller's object.                                                  *)
(***************************************************************************)
EXTENDS Integers, Sequences, FiniteSets, TLC

\* ------------------------------------------------------------------ bounds
\* most fields in one field map
MaxFields == 2
\* most elements of an input iterable, most checks given to and / or
MaxLen == 2
\* most entries of a descriptor tree, all levels together
MaxNodes == 3
\* deepest nesting of the objects given to a compiled tree
MaxDepth == 2

\* --------------------------------------------------------------- JS values
Undefined == [t |-> "undefined"]
Null == [t |-> "null"]
Num(n) == [t |-> "number", n |-> n]
Str(s) == [t |-> "string", s |-> s]
Obj(props) == [t |-> "object", props |-> props]
Arr(items) == [t |-> "array", items |-> items]

\* the property names used as field names
Keys == {"a", "name", "length"}
\* names looked up on validators: the field names, a name every object
\* inherits, a name only functions inherit, and a name nothing has
LookupNames == Keys \cup {"toString", "call", "zzz"}

\* the host's property tables
ObjectPrototypeNames == {"toString"}
FunctionPrototypeNames == {"call", "toString"}
FunctionOwnNames == {"name", "length"}
Intrinsic(owner, name) == [kind |-> "intrinsic", owner |-> owner, name |-> name]

\* --------------------------------------------------------- leaf predicates
\* variant: == where isNull has ===
isNullLoose(item) == item = Null \/ item = Undefined
\* variant: === where isMissing has ==
isMissingStrict(item) == item = Null
isNull(item) == item = Null
isUndefined(item) == item = Undefined
isMissing(item) == item = Null \/ item = Undefined

TypeOf(item) ==
  CASE item.t = "undefined" -> "undefined"
    [] item.t = "number" -> "number"
    [] item.t = "string" -> "string"
    [] OTHER -> "object"

\* item[key] for a non-missing item: a missing property reads as undefined
Get(item, key) ==
  CASE item.t = "object" ->
         IF key \in DOMAIN item.props THEN item.props[key] ELSE Undefined
    [] item.t = "array" ->
         IF key = "length" THEN Num(Len(item.items)) ELSE Undefined
    [] item.t = "string" ->
         IF key = "length" THEN Num(1) ELSE Undefined
    [] OTHER -> Undefined

\* typeof item?.[Symbol.iterator] === "function": arrays and strings have one
HasIterator(item) == ~isMissing(item) /\ item.t \in {"array", "string"}

Leaf(name) == [kind |-> "leaf", name |-> name]
isString == Leaf("isString")
isNumber == Leaf("isNumber")
\* the caller-supplied predicate id => id.startsWith("v"): it throws on
\* everything that is not a string
startsWithV == Leaf("startsWithV")

Bool(b) == IF b THEN "true" ELSE "false"

\* the outcome of a leaf predicate: "true", "false" or "throw"
Pred(name, item) ==
  CASE name = "isString" -> Bool(TypeOf(item) = "string")
    [] name = "isNumber" -> Bool(TypeOf(item) = "number")
    [] name = "startsWithV" ->
         IF item.t = "string" THEN Bool(item.s = "v") ELSE "throw"

\* variant: the exclusion of strings left out
isIterableWithText(item) == HasIterator(item)
isIterable(item) == HasIterator(item) /\ Pred("isString", item) # "true"

\* ------------------------------------------------------- field-map objects
\* A field-map object is the sequence of its own enumerable properties, in
\* insertion order: <<[key |-> k, val |-> validator], ...>>.
Absent == [kind |-> "undefined"]

\* Object.keys(validators)
ObjectKeys(obj) == [i \in 1..Len(obj) |-> obj[i].key]
HasOwn(obj, key) == \E i \in 1..Len(obj) : obj[i].key = key
OwnVal(obj, key) == obj[CHOOSE i \in 1..Len(obj) : obj[i].key = key].val

\* key in validators: own properties and those of Object.prototype
HasProperty(obj, key) == HasOwn(obj, key) \/ key \in ObjectPrototypeNames

\* validators[key]
ReadProperty(obj, key) ==
  IF HasOwn(obj, key) THEN OwnVal(obj, key)
  ELSE IF key \in ObjectPrototypeNames THEN Intrinsic("Object.prototype", key)
  ELSE Absent

\* key in f, for a function f; a Proxy without a "has" trap answers for its
\* target, the validate closure
FunctionHasProperty(key) ==
  key \in FunctionOwnNames \cup FunctionPrototypeNames \cup ObjectPrototypeNames

\* ------------------------------------------------------------- validators
ValidatorMapOf(addr, obj) ==
  [kind |-> "ValidatorMap", validators |-> addr, keys |-> ObjectKeys(obj)]
IterableValidatorOf(check) == [kind |-> "IterableValidator", check |-> check]
Combinator(kind, checks) == [kind |-> kind, checks |-> checks]
Wrapper(kind, check) == [kind |-> kind, check |-> check]

\* typeof f === "function"
IsCallable(f) == f.kind \notin {"undefined", "descriptor", "intrinsic"}

RECURSIVE Eval(_, _, _)
RECURSIVE MapLoop(_, _, _, _)
RECURSIVE IterLoop(_, _, _, _)
RECURSIVE EveryLoop(_, _, _, _)
RECURSIVE SomeLoop(_, _, _, _)

\* variant: the keys walked from the last to the first
KeyAtReversed(keys, i) == keys[Len(keys) + 1 - i]
\* keys[i]
KeyAt(keys, i) == keys[i]

\* the elements an iterator over item yields: a string yields its characters
Items(item) ==
  CASE item.t = "array" -> item.items
    [] item.t = "string" -> <<item>>
    [] OTHER -> <<>>

\* f(item): calling what is not a function throws a TypeError
Call(f, item, heap) == IF IsCallable(f) THEN Eval(f, item, heap) ELSE "throw"

\* variant: the key is read at a fixed index, not at i
FieldCheckFirstKey(v, item, heap, i) ==
  Call(ReadProperty(heap[v.validators], v.keys[1]), Get(item, v.keys[1]), heap)

\* one pass of the loop body of ValidatorMap's validate: the outcome of
\* validators[keys[i]](item[keys[i]])
FieldCheck(v, item, heap, i) ==
  LET key == KeyAt(v.keys, i)
      validate == ReadProperty(heap[v.validators], key)
      value == Get(item, key)
  IN Call(validate, value, heap)

MapLoop(v, item, heap, i) ==
  IF i > Len(v.keys) THEN "true"
  ELSE LET r == FieldCheck(v, item, heap, i)
       IN IF r = "true" THEN MapLoop(v, item, heap, i + 1) ELSE r

\* one pass of the for-of body of IterableValidator's validate
ElementCheck(v, items, heap, i) == Call(v.check, items[i], heap)

IterLoop(v, items, heap, i) ==
  IF i > Len(items) THEN "true"
  ELSE LET r == ElementCheck(v, items, heap, i)
       IN IF r = "true" THEN IterLoop(v, items, heap, i + 1) ELSE r

\* checks.every(check => check(item))
EveryLoop(checks, item, heap, i) ==
  IF i > Len(checks) THEN "true"
  ELSE LET r == Call(checks[i], item, heap)
       IN IF r = "true" THEN EveryLoop(checks, item, heap, i + 1) ELSE r

\* checks.some(check => check(item))
SomeLoop(checks, item, heap, i) ==
  IF i > Len(checks) THEN "false"
  ELSE LET r == Call(checks[i], item, heap)
       IN IF r = "false" THEN SomeLoop(checks, item, heap, i + 1) ELSE r

\* the outcome of v(item): "true", "false" or "throw"
Eval(v, item, heap) ==
  CASE v.kind = "leaf" -> Pred(v.name, item)
    [] v.kind = "ValidatorMap" ->
         IF isMissing(item) THEN "false" ELSE MapLoop(v, item, heap, 1)
    [] v.kind = "IterableValidator" ->
         IF ~isIterable(item) THEN "false" ELSE IterLoop(v, Items(item), heap, 1)
    [] v.kind = "test" ->
         IF isMissing(item) THEN "false" ELSE Call(v.check, item, heap)
    [] v.kind = "optional" ->
         IF isNull(item) THEN "false"
         ELSE IF isUndefined(item) THEN "true" ELSE Call(v.check, item, heap)
    [] v.kind = "nullable" ->
         IF isUndefined(item) THEN "false"
         ELSE IF isNull(item) THEN "true" ELSE Call(v.check, item, heap)
    [] v.kind = "erratic" ->
         IF isMissing(item) THEN "true" ELSE Call(v.check, item, heap)
    [] v.kind = "and" ->
         IF isMissing(item) THEN "false" ELSE EveryLoop(v.checks, item, heap, 1)
    [] v.kind = "or" ->
         IF isMissing(item) THEN "false" ELSE SomeLoop(v.checks, item, heap, 1)

\* --------------------------------------------------------------- lookup
RECURSIVE Lookup(_, _, _)
\* v[key]: the "get" trap of the Proxy for the two proxied validators, the
\* function's own property for every other validator
Lookup(v, key, heap) ==
  CASE v.kind = "ValidatorMap" ->
         IF HasProperty(heap[v.validators], key)
         THEN ReadProperty(heap[v.validators], key)
         ELSE Absent
    [] v.kind = "IterableValidator" ->
         IF FunctionHasProperty(key) THEN Lookup(v.check, key, heap) ELSE Absent
    [] OTHER ->
         IF FunctionHasProperty(key) THEN Intrinsic("Function", key) ELSE Absent

\* -------------------------------------------------------- tree compiler
Node(fields) == [kind |-> "descriptor", fields |-> fields]
Entry(key, val) == [key |-> key, val |-> val]

\* variant: every defined entry taken for a validator
isLogicalValidatorLoose(item) == item.kind # "undefined"
\* typeof item === "function"
isLogicalValidator(item) == item.kind # "descriptor"

RECURSIVE buildValidationMap(_, _)
RECURSIVE BuildLoop(_, _, _, _)

\* the for-in loop of buildValidationMap from entry i on; map is the object
\* built so far; every ValidatorMap(submap) puts submap in the heap
BuildLoop(tree, i, map, heap) ==
  IF i > Len(tree.fields) THEN [map |-> map, heap |-> heap]
  ELSE LET e == tree.fields[i]
       IN IF isLogicalValidator(e.val)
          THEN BuildLoop(tree, i + 1, Append(map, Entry(e.key, e.val)), heap)
          ELSE LET sub == buildValidationMap(e.val, heap)
                   h2 == Append(sub.heap, sub.map)
                   test == ValidatorMapOf(Len(h2), sub.map)
               IN BuildLoop(tree, i + 1, Append(map, Entry(e.key, test)), h2)

buildValidationMap(tree, heap) == BuildLoop(tree, 1, <<>>, heap)

ValidationTree(tree, heap) ==
  LET b == buildValidationMap(tree, heap)
      h2 == Append(b.heap, b.map)
  IN [v |-> ValidatorMapOf(Len(h2), b.map), heap |-> h2]

\* ------------------------------------------------- the caller's material
Leaves == {isString, isNumber, startsWithV}

\* two record validators the caller built beforehand, as isAddress is in
\* the usage file
AddressMap == <<Entry("a", isString)>>
isAddress == ValidatorMapOf(1, AddressMap)
PersonMap == <<Entry("name", isString), Entry("a", isAddress)>>
isPerson == ValidatorMapOf(2, PersonMap)

FieldValidators ==
  {isString, startsWithV, Wrapper("optional", isString),
   Wrapper("erratic", isNumber), isAddress}

Injective(q) == \A m, n \in DOMAIN q : m # n => q[m] # q[n]
SeqsUpTo(S, n) == UNION {[1..m -> S] : m \in 0..n}
KeySeqs == {ks \in SeqsUpTo(Keys, MaxFields) : Injective(ks)}
FieldMapsOver(vals) ==
  UNION {{[j \in 1..Len(ks) |-> Entry(ks[j], vs[j])] : vs \in [1..Len(ks) -> vals]}
         : ks \in KeySeqs}
FieldMaps == FieldMapsOver(FieldValidators)

ElementValidators == {isString, startsWithV, isAddress, isPerson}
CheckLists == SeqsUpTo(Leaves, MaxLen)

\* descriptor trees over two keys, in declaration order, of bounded size
TreeLeaves == {isString, isNumber, isAddress}
RECURSIVE Size(_)
Size(d) ==
  IF d.kind # "descriptor" THEN 0
  ELSE IF Len(d.fields) = 0 THEN 0
  ELSE IF Len(d.fields) = 1 THEN 1 + Size(d.fields[1].val)
  ELSE 2 + Size(d.fields[1].val) + Size(d.fields[2].val)
RECURSIVE Descs(_)
Descs(n) ==
  LET vals == IF n >= 1 THEN TreeLeaves \cup Descs(n - 1) ELSE {}
  IN {Node(<<>>)}
     \cup {Node(<<Entry(k, v)>>) : k \in {"a", "name"}, v \in vals}
     \cup {d \in {Node(<<Entry("a", v1), Entry("name", v2)>>) : v1 \in vals, v2 \in vals}
            : Size(d) <= n}
Descriptors == Descs(MaxNodes)

\* inputs
Prims == {Undefined, Null, Num(1), Str("s"), Str("v")}
AddrObj == Obj([k \in {"a"} |-> Str("s")])
PropValues == {Null, Str("s")}
Objects == UNION {{Obj(f) : f \in [S -> PropValues]} : S \in SUBSET Keys}
NestedObjects ==
  {Obj([k \in {key} |-> AddrObj]) : key \in Keys}
  \cup {Obj([k \in {"a", "name"} |-> IF k = "a" THEN AddrObj ELSE Str("s")])}
NumberObjects == {Obj([k \in {key} |-> Num(1)]) : key \in Keys}
Elements == {Num(1), Str("s"), Str("v"), AddrObj}
Arrays == {Arr(q) : q \in SeqsUpTo(Elements, MaxLen)}
RECURSIVE TreeValues(_)
TreeValues(d) ==
  LET flat == {Num(1), Str("s")}
  IN IF d = 0 THEN flat
     ELSE flat \cup UNION {{Obj(f) : f \in {g \in [S -> TreeValues(d - 1)] :
                                              "name" \in S => g["name"] \in flat}}
                           : S \in SUBSET {"a", "name"}}
TreeInputs == {Undefined, Null} \cup TreeValues(MaxDepth)

InputsOf(h) ==
  CASE h = "ValidatorMap" ->
         Prims \cup Objects \cup NestedObjects \cup NumberObjects
           \cup {Arr(<<>>), Arr(<<Num(1)>>)}
    [] h = "IterableValidator" -> Prims \cup Arrays \cup {AddrObj}
    [] h = "ValidationTree" -> TreeInputs
    [] OTHER -> Prims \cup {AddrObj, Arr(<<>>)}

\* the validator a caller gets by applying ValidatorMap by hand to every
\* nested descriptor object, innermost first
RECURSIVE ByHand(_, _)
RECURSIVE ByHandFrom(_, _, _)
ByHandFrom(d, i, heap) ==
  IF i > Len(d.fields) THEN [map |-> <<>>, heap |-> heap]
  ELSE LET e == d.fields[i]
           inner == IF e.val.kind = "descriptor"
                    THEN ByHand(e.val, heap)
                    ELSE [v |-> e.val, heap |-> heap]
           rest == ByHandFrom(d, i + 1, inner.heap)
       IN [map |-> <<Entry(e.key, inner.v)>> \o rest.map, heap |-> rest.heap]
ByHand(d, heap) ==
  LET lit == ByHandFrom(d, 1, heap)
      h2 == Append(lit.heap, lit.map)
  IN [v |-> ValidatorMapOf(Len(h2), lit.map), heap |-> h2]

\* ------------------------------------------------------------- the state
VARIABLES
  heap,      \* the field-map objects, by address
  V,         \* the validator under study
  W,         \* for a compiled tree: the validator built by hand from it
  how,       \* the constructor that made V
  declared,  \* the field map as it was when V was constructed
  pc,        \* "new", "idle" or "run" (inside V(input))
  input,     \* the argument of the current or last call
  i,         \* the loop index of the running call
  calls,     \* the checks the running call has invoked, with their outcomes
  opens,     \* how often the running call asked input for an iterator
  outcome,   \* how the last call ended: "true", "false", "throw"; else "none"
  outcome2,  \* the same for W
  looked     \* the last lookup: its key and its answer

vars ==
  <<heap, V, W, how, declared, pc, input, i, calls, opens, outcome, outcome2,
    looked>>

NoLookup == [key |-> "", answer |-> Absent]

Init ==
  /\ heap = <<AddressMap, PersonMap>>
  /\ V = Absent
  /\ W = Absent
  /\ how = "none"
  /\ declared = <<>>
  /\ pc = "new"
  /\ input = Undefined
  /\ i = 0
  /\ calls = <<>>
  /\ opens = 0
  /\ outcome = "none"
  /\ outcome2 = "none"
  /\ looked = NoLookup

Built(v, w, h, name, decl) ==
  /\ pc = "new"
  /\ V' = v
  /\ W' = w
  /\ heap' = h
  /\ how' = name
  /\ declared' = decl
  /\ pc' = "idle"
  /\ UNCHANGED <<input, i, calls, opens, outcome, outcome2, looked>>

\* ValidatorMap(validators): the closure keeps the reference to validators
\* and the keys it has now
NewValidatorMapFrom(maps) ==
  \E validators \in maps :
    LET h == Append(heap, validators)
    IN Built(ValidatorMapOf(Len(h), validators), Absent, h, "ValidatorMap",
             validators)

NewValidatorMap == NewValidatorMapFrom(FieldMaps)

NewValidationTree ==
  \E tree \in Descriptors :
    LET t == ValidationTree(tree, heap)
        m == ByHand(tree, t.heap)
    IN Built(t.v, m.v, m.heap, "ValidationTree", t.heap[t.v.validators])

NewIterableValidator ==
  \E check \in ElementValidators :
    Built(IterableValidatorOf(check), Absent, heap, "IterableValidator", <<>>)

NewAnd ==
  \E checks \in CheckLists :
    Built(Combinator("and", checks), Absent, heap, "and", <<>>)

NewOr ==
  \E checks \in CheckLists :
    Built(Combinator("or", checks), Absent, heap, "or", <<>>)

NewTest ==
  \E check \in Leaves : Built(Wrapper("test", check), Absent, heap, "test", <<>>)

NewOptional ==
  \E check \in Leaves :
    Built(Wrapper("optional", check), Absent, heap, "optional", <<>>)

NewNullable ==
  \E check \in Leaves :
    Built(Wrapper("nullable", check), Absent, heap, "nullable", <<>>)

NewErratic ==
  \E check \in Leaves :
    Built(Wrapper("erratic", check), Absent, heap, "erratic", <<>>)

\* ------------------------------------------------------------- the calls
\* what v(item) does before it invokes any check: "false" or "true" when it
\* returns at once, "loop" when it goes on to its checks
Before(v, item) ==
  CASE v.kind = "ValidatorMap" -> IF isMissing(item) THEN "false" ELSE "loop"
    [] v.kind = "IterableValidator" -> IF ~isIterable(item) THEN "false" ELSE "loop"
    [] v.kind \in {"test", "and", "or"} -> IF isMissing(item) THEN "false" ELSE "loop"
    [] v.kind = "optional" ->
         IF isNull(item) THEN "false" ELSE IF isUndefined(item) THEN "true" ELSE "loop"
    [] v.kind = "nullable" ->
         IF isUndefined(item) THEN "false" ELSE IF isNull(item) THEN "true" ELSE "loop"
    [] v.kind = "erratic" -> IF isMissing(item) THEN "true" ELSE "loop"

\* variant: an exception of the check caught and reported as a failure
CompletionCaught(r) == IF r = "throw" THEN "false" ELSE r

\* validate holds no try: the value or the exception of the check it
\* invoked is what the call completes with
Completion(r) == r

\* nothing of an earlier call or lookup is at hand
Fresh == outcome = "none" /\ looked = NoLookup

\* the caller invokes V(item)
Invoke ==
  /\ pc = "idle"
  /\ Fresh
  /\ \E item \in InputsOf(how) :
       LET b == Before(V, item)
       IN /\ input' = item
          /\ pc' = IF b = "loop" THEN "run" ELSE "idle"
          /\ outcome' = IF b = "loop" THEN "none" ELSE b
          /\ opens' = IF b = "loop" /\ V.kind = "IterableValidator" THEN 1 ELSE 0
          /\ outcome2' = IF W = Absent THEN "none" ELSE Eval(W, item, heap)
  /\ i' = 1
  /\ calls' = <<>>
  /\ looked' = NoLookup
  /\ UNCHANGED <<heap, V, W, how, declared>>

Return(r) ==
  /\ pc' = "idle"
  /\ outcome' = r
  /\ UNCHANGED <<heap, V, W, how, declared, input, i, opens, outcome2, looked>>

\* the loop goes on to its next pass after check number i ended with r
Continue(r) ==
  /\ calls' = Append(calls, r)
  /\ i' = i + 1
  /\ UNCHANGED <<heap, V, W, how, declared, pc, input, opens, outcome, outcome2,
                 looked>>

Invoked(key, r) == [i |-> i, key |-> key, out |-> r]

\* one pass of: for (i < keys.length) if (!validate(value)) return false
MapStep ==
  /\ pc = "run"
  /\ V.kind = "ValidatorMap"
  /\ IF i > Len(V.keys)
     THEN Return("true") /\ calls' = calls
     ELSE LET r == FieldCheck(V, input, heap, i)
              c == Invoked(KeyAt(V.keys, i), r)
          IN IF r = "true"
             THEN Continue(c)
             ELSE Return(Completion(r)) /\ calls' = Append(calls, c)

\* one pass of: for (let item of items) if (!check(item)) return false
IterStep ==
  /\ pc = "run"
  /\ V.kind = "IterableValidator"
  /\ IF i > Len(Items(input))
     THEN Return("true") /\ calls' = calls
     ELSE LET r == ElementCheck(V, Items(input), heap, i)
              c == Invoked("", r)
          IN IF r = "true"
             THEN Continue(c)
             ELSE Return(Completion(r)) /\ calls' = Append(calls, c)

\* one callback of checks.every(...)
EveryStep ==
  /\ pc = "run"
  /\ V.kind = "and"
  /\ IF i > Len(V.checks)
     THEN Return("true") /\ calls' = calls
     ELSE LET r == Call(V.checks[i], input, heap)
              c == Invoked("", r)
          IN IF r = "true"
             THEN Continue(c)
             ELSE Return(Completion(r)) /\ calls' = Append(calls, c)

\* one callback of checks.some(...)
SomeStep ==
  /\ pc = "run"
  /\ V.kind = "or"
  /\ IF i > Len(V.checks)
     THEN Return("false") /\ calls' = calls
     ELSE LET r == Call(V.checks[i], input, heap)
              c == Invoked("", r)
          IN IF r = "false"
             THEN Continue(c)
             ELSE Return(Completion(r)) /\ calls' = Append(calls, c)

\* test, optional, nullable, erratic: return check(item)
WrapStep ==
  /\ pc = "run"
  /\ V.kind \in {"test", "optional", "nullable", "erratic"}
  /\ LET r == Call(V.check, input, heap)
     IN Return(Completion(r)) /\ calls' = Append(calls, Invoked("", r))

\* the caller reads V[key]
DoLookup ==
  /\ pc = "idle"
  /\ Fresh
  /\ \E key \in LookupNames :
       looked' = [key |-> key, answer |-> Lookup(V, key, heap)]
  /\ UNCHANGED <<heap, V, W, how, declared, pc, input, i, calls, opens, outcome,
                 outcome2>>

\* the caller is done with the result; the validator keeps nothing of the
\* call and is used again
Again ==
  /\ pc = "idle"
  /\ ~Fresh
  /\ input' = Undefined
  /\ i' = 0
  /\ calls' = <<>>
  /\ opens' = 0
  /\ outcome' = "none"
  /\ outcome2' = "none"
  /\ looked' = NoLookup
  /\ UNCHANGED <<heap, V, W, how, declared, pc>>

Next ==
  \/ NewValidatorMap
  \/ NewValidationTree
  \/ NewIterableValidator
  \/ NewAnd
  \/ NewOr
  \/ NewTest
  \/ NewOptional
  \/ NewNullable
  \/ NewErratic
  \/ Invoke
  \/ MapStep
  \/ IterStep
  \/ EveryStep
  \/ SomeStep
  \/ WrapStep
  \/ DoLookup
  \/ Again

Spec == Init /\ [][Next]_vars

\* ------------------------------------------- the caller changes its map
\* After ValidatorMap(validators) returned, the caller still holds the
\* object it passed and may add, remove or replace an entry of it.
SmallFieldMaps == FieldMapsOver({isString, isNumber})

NewRecord == NewValidatorMapFrom(SmallFieldMaps)

MutateFieldMap ==
  /\ pc = "idle"
  /\ Fresh
  /\ V.kind = "ValidatorMap"
  /\ LET obj == heap[V.validators]
     IN \E next \in SmallFieldMaps :
          /\ \/ \E k \in Keys, c \in {isString, isNumber} :
                  ~HasOwn(obj, k) /\ next = Append(obj, Entry(k, c))
             \/ \E j \in 1..Len(obj) :
                  next = SubSeq(obj, 1, j - 1) \o SubSeq(obj, j + 1, Len(obj))
             \/ \E j \in 1..Len(obj), c \in {isString, isNumber} :
                  c # obj[j].val /\ next = [obj EXCEPT ![j].val = c]
          /\ heap' = [heap EXCEPT ![V.validators] = next]
  /\ UNCHANGED <<V, W, how, declared, pc, input, i, calls, opens, outcome,
                 outcome2, looked>>

NextMutation ==
  \/ NewRecord
  \/ MutateFieldMap
  \/ Invoke
  \/ MapStep
  \/ DoLookup
  \/ Again

SpecMutation == Init /\ [][NextMutation]_vars

\* ------------------------------------------------------------ the claims
Done == pc = "idle" /\ outcome # "none"
Missing(x) == x \in {Null, Undefined}
Last(q) == q[Len(q)]

\* C1: a record validator returns false on null and undefined, and otherwise
\* true exactly when every declared field's validator returns true on the
\* input's property of that name (undefined when the input has none).
C1_RecordValidatorResult ==
  (V.kind = "ValidatorMap" /\ Done /\ outcome # "throw") =>
    outcome = Bool(/\ ~Missing(input)
                   /\ \A j \in 1..Len(declared) :
                        Eval(declared[j].val, Get(input, declared[j].key), heap)
                          = "true")

\* a record of two fields, one of them optional and not in the input, passes
C1_Witness ==
  /\ how = "ValidatorMap"
  /\ Done
  /\ outcome = "true"
  /\ Len(declared) = 2
  /\ input.t = "object"
  /\ \E j \in 1..2 :
       declared[j].val.kind = "optional" /\ declared[j].key \notin DOMAIN input.props

\* C2: lookup on a record validator mirrors the field map: the stored
\* validator for a declared key, absent for every other name.
C2_LookupMirrorsMap ==
  (V.kind = "ValidatorMap" /\ looked # NoLookup) =>
    looked.answer = IF HasOwn(declared, looked.key)
                    THEN OwnVal(declared, looked.key)
                    ELSE Absent

\* C3: lookup of any name on IterableValidator(c), c a record validator,
\* yields what lookup of that name on c yields.
C3_IterableForwardsLookup ==
  (V.kind = "IterableValidator" /\ V.check.kind = "ValidatorMap" /\ looked # NoLookup)
    => looked.answer = Lookup(V.check, looked.key, heap)

\* what a property of an input of a compiled tree can hold
InnerInputs == {Undefined, Null} \cup TreeValues(MaxDepth - 1)

\* the answers of two lookups are alike: the same leaf or absent, or record
\* validators with the same outcome on every input whose lookups are alike
RECURSIVE Alike(_, _, _)
Alike(v, w, h) ==
  IF v.kind = "ValidatorMap" /\ w.kind = "ValidatorMap"
  THEN /\ \A x \in InnerInputs : Eval(v, x, h) = Eval(w, x, h)
       /\ \A k \in LookupNames : Alike(Lookup(v, k, h), Lookup(w, k, h), h)
  ELSE v = w

C5_IterableResult ==
  (V.kind = "IterableValidator" /\ Done /\ outcome # "throw") =>
    outcome = IF input.t # "array"
              THEN "false"
              ELSE Bool(\A j \in 1..Len(input.items) :
                          Eval(V.check, input.items[j], heap) = "true")

\* an array of two elements passes
C5_Witness ==
  /\ V.kind = "IterableValidator"
  /\ Done
  /\ outcome = "true"
  /\ input.t = "array"
  /\ Len(input.items) = 2

\* C6: optional passes undefined and fails null, nullable passes null and
\* fails undefined, erratic passes both; on every other input each ends as
\* the wrapped check ends.
C6_MissingValuePolicies ==
  (V.kind \in {"optional", "nullable", "erratic"} /\ Done) =>
    outcome = IF input = Undefined THEN Bool(V.kind \in {"optional", "erratic"})
              ELSE IF input = Null THEN Bool(V.kind \in {"nullable", "erratic"})
              ELSE Pred(V.check.name, input)

\* optional(c) passed undefined
C6_Witness ==
  /\ V.kind = "optional"
  /\ Done
  /\ input = Undefined
  /\ outcome = "true"

\* C7: and(...) and or(...) return false on null and undefined; otherwise
\* and(...) is true exactly when every check passes and or(...) exactly when
\* some check passes, so and() is true and or() is false.
C7_AndOr ==
  (V.kind \in {"and", "or"} /\ Done /\ outcome # "throw") =>
    outcome = IF Missing(input) THEN "false"
              ELSE IF V.kind = "and"
              THEN Bool(\A j \in 1..Len(V.checks) : Pred(V.checks[j].name, input) = "true")
              ELSE Bool(\E j \in 1..Len(V.checks) : Pred(V.checks[j].name, input) = "true")

\* and() with no checks passed a value that is not missing
C7_Witness ==
  /\ V.kind = "and"
  /\ Len(V.checks) = 0
  /\ Done
  /\ ~Missing(input)
  /\ outcome = "true"

\* C8: a call throws only when a check it invoked threw, a check that threw
\* ends the call with that exception, and a check that failed ends it with
\* false.
C8_ExceptionsPropagate ==
  /\ \A j \in 1..Len(calls) :
       calls[j].out = "throw" => (j = Len(calls) /\ pc = "idle" /\ outcome = "throw")
  /\ outcome = "throw" => (calls # <<>> /\ Last(calls).out = "throw")
  /\ (Done /\ calls # <<>> /\ Last(calls).out = "false") => outcome = "false"

\* the second field's predicate threw after the first field passed
C8_Witness ==
  /\ V.kind = "ValidatorMap"
  /\ Done
  /\ outcome = "throw"
  /\ Len(calls) = 2

\* C9: a record validator invokes its field validators in the order of the
\* map's keys, the iterable lifter its element validator on the elements in
\* iteration order in one pass; neither invokes anything after the first
\* check that does not pass.
C9_OrderedShortCircuit ==
  V.kind \in {"ValidatorMap", "IterableValidator"} =>
    /\ \A j \in 1..Len(calls) :
         /\ calls[j].i = j
         /\ j < Len(calls) => calls[j].out = "true"
    /\ (Done /\ outcome = "false" /\ calls # <<>>) => Last(calls).out = "false"
    /\ V.kind = "ValidatorMap" =>
         /\ Len(calls) <= Len(declared)
         /\ \A j \in 1..Len(calls) : calls[j].key = declared[j].key
    /\ V.kind = "IterableValidator" =>
         /\ opens <= 1
         /\ Len(calls) <= Len(Items(input))
         /\ (calls # <<>>) => opens = 1

\* the first of two fields failed and the second was never invoked
C9_Witness ==
  /\ how = "ValidatorMap"
  /\ Done
  /\ outcome = "false"
  /\ Len(declared) = 2
  /\ Len(calls) = 1

\* C10: whatever the caller does to its field-map object afterwards, the
\* validator checks the fields, and answers lookup for the field names, that
\* the map had at construction.
C10_FixedAtConstruction ==
  V.kind = "ValidatorMap" =>
    /\ (looked # NoLookup /\ looked.key \in Keys) =>
         looked.answer = IF HasOwn(declared, looked.key)
                         THEN OwnVal(declared, looked.key)
                         ELSE Absent
    /\ Done => outcome = Eval(V, input, [heap EXCEPT ![V.validators] = declared])

====
